---- MODULE Spec2Model ----
(***************************************************************************)
(* isso PostgreSQL back end: PSQL.__init__ / set_version / migrate         *)
(* (src/isso/db_psql/__init__.py) and Threads (src/isso/db_psql/threads.py) *)
(* as a state machine over one shared PostgreSQL store.                    *)
(*                                                                         *)
(* Every self.execute(...) call opens its own connection and commits on    *)
(* return, so it is one atomic action.  Every `with psycopg2.connect(...)  *)
(* as con:` block of migrate is one transaction: its statements write to a *)
(* per-opener pending write set (loc[o].tx) which is applied to the store  *)
(* when the block exits normally and discarded when anything raises.       *)
(* Statements are modelled by the SQL they carry.  Any statement may raise *)
(* (connection loss, driver error, deadlock, interruption of the process): *)
(* action Abort.  This covers the calls of the blocks that the psycopg2    *)
(* driver rejects (`?` placeholders with parameters, the result of         *)
(* cursor.execute(), con.total_changes): there the block always aborts.    *)
(*                                                                         *)
(* Spec: one process at a time opens a pre-existing or a new store, any    *)
(* number of times.  SpecRace: several processes open it concurrently.     *)
(* SpecReap: an opened store is used through Threads and the comments      *)
(* table, with the remove_stale_threads trigger in place.                  *)
(***************************************************************************)
EXTENDS Integers, Sequences, FiniteSets, TLC

\* ------------------------------------------------------------------ bounds
MaxId == 4                 \* comment ids 1..MaxId of a pre-existing store
NumRacers == 2             \* processes that open the store concurrently (SpecRace)
RaceIds == 2               \* comment ids 1..RaceIds of the store they race on
NumThreads == 2            \* thread ids 1..NumThreads

\* --------------------------------------------------------------- constants
MAX_VERSION == 3           \* PSQL.MAX_VERSION
NULL == 0                  \* SQL NULL in comments.parent (ids are SERIAL, >= 1)
None == -1                 \* SELECT MAX(version) over an empty versions table
Raises == -2               \* SELECT on a table that does not exist: ProgrammingError

Openers == 1..NumRacers
Ids == 1..MaxId
Tids == 1..NumThreads
Versions == 0..MAX_VERSION
Steps == 0..(MAX_VERSION - 1)
Targets == {MAX_VERSION, MAX_VERSION + 1}   \* argument `to` of migrate

SessionKey == "session-key"
OtherKey == "other"
NoKey == "<absent>"        \* configuration without [general] session-key
ConfKey == "key-from-conf" \* conf.get("general", "session-key")
Bf == "bf"                 \* Bloomfilter(iterable=["127.0.0.0"]).array
Stale == "stale"           \* any other voters blob

VARIABLES
    tables,     \* threads/comments/preferences tables exist
    vtable,     \* versions table exists
    versions,   \* rows of versions: [value -> number of rows with that value]
    comments,   \* rows of comments: [id -> [parent, voters, tid]]
    threads,    \* ids of the rows of threads
    prefs,      \* rows of preferences: [key -> value]
    trigger,    \* remove_stale_threads trigger installed
    conf,       \* the deployment's configuration: value of session-key or NoKey
    pc,         \* per opener: position in __init__/migrate
    loc,        \* per opener: local variables and pending transaction
    origin,     \* history: the store as it was before any open
    commits,    \* history: number of commits of each migration step
    pend,       \* Threads.new calls between their INSERT and their lookup
    seqs        \* next value of the SERIAL id sequences of threads and comments

vars == <<tables, vtable, versions, comments, threads, prefs, trigger, conf,
          pc, loc, origin, commits, pend, seqs>>

store == <<tables, vtable, versions, comments, threads, prefs, trigger>>

\* ----------------------------------------------------------------- helpers
Perms(S) == {s \in [1..Cardinality(S) -> S] : \A x \in S : \E i \in DOMAIN s : s[i] = x}

ToSet(s) == {s[i] : i \in DOMAIN s}

Front(s) == SubSeq(s, 1, Len(s) - 1)

Last(s) == s[Len(s)]

Max(S) == CHOOSE x \in S : \A y \in S : y <= x

Min(S) == CHOOSE x \in S : \A y \in S : x <= y

NoRows == [v \in Versions |-> 0]

\* seeded fault: the version is overwritten instead of appended
ReplaceVersion(vs, v) == [NoRows EXCEPT ![v] = 1]

\* INSERT INTO versions VALUES (v)
InsertVersion(vs, v) == [vs EXCEPT ![v] = @ + 1]

\* the property `version`: SELECT MAX(version) FROM versions
version(vt, vs) ==
    IF ~vt THEN Raises
    ELSE IF \A v \in Versions : vs[v] = 0 THEN None
    ELSE Max({v \in Versions : vs[v] > 0})

\* pending writes of one transaction block
NoTx == [voters |-> FALSE, parents |-> <<>>, pref |-> NoKey, ver |-> None]

\* the locals of the 2 -> 3 block; asked (history) counts, per comment id,
\* the child queries of line 127 issued so far in the block
NoWalk == [top |-> <<>>, cur |-> NULL, ids |-> <<>>, flattened |-> <<>>, upd |-> {},
           asked |-> <<>>]

\* at, why: where and why the last open or migrate call of the process raised
Idle == [rv |-> FALSE, to |-> MAX_VERSION, caller |-> "init", tx |-> NoTx,
         walk |-> NoWalk, at |-> "none", why |-> "none"]

Rest == {"idle", "done", "failed"}

\* seeded fault: the UPDATE of voters carries a WHERE clause and reaches only
\* the root comments
WriteCommentsRootsOnly(cs, tx) ==
    [c \in DOMAIN cs |->
        [cs[c] EXCEPT !.voters = IF tx.voters /\ cs[c].parent = NULL THEN Bf ELSE @,
                      !.parent = IF c \in DOMAIN tx.parents THEN tx.parents[c] ELSE @]]

\* the transaction's UPDATE comments SET voters=bf (line 99) and
\* UPDATE comments SET parent=id WHERE id=n (line 134), applied to the rows
WriteComments(cs, tx) ==
    [c \in DOMAIN cs |->
        [cs[c] EXCEPT !.voters = IF tx.voters THEN Bf ELSE @,
                      !.parent = IF c \in DOMAIN tx.parents THEN tx.parents[c] ELSE @]]

\* the transaction's UPDATE preferences SET value=? WHERE key='session-key'
WritePrefs(ps, tx) ==
    IF tx.pref # NoKey /\ SessionKey \in DOMAIN ps
    THEN [ps EXCEPT ![SessionKey] = tx.pref]
    ELSE ps

\* seeded fault: the version row of a step is not part of what the block commits
WriteVersionsLost(vs, tx) == vs

\* the transaction's INSERT INTO versions VALUES (k+1)
WriteVersions(vs, tx) == IF tx.ver # None THEN InsertVersion(vs, tx.ver) ELSE vs

\* with-block exits normally: COMMIT
Commit(data, tx) ==
    [comments |-> WriteComments(data.comments, tx),
     prefs    |-> WritePrefs(data.prefs, tx),
     versions |-> WriteVersions(data.versions, tx)]

\* seeded fault: the data statements are not rolled back (autocommit), only the
\* version row is lost
RollbackKeepsData(data, tx) == [Commit(data, tx) EXCEPT !.versions = data.versions]

\* with-block left by an exception: ROLLBACK
Rollback(data, tx) == data

Data == [comments |-> comments, prefs |-> prefs, versions |-> versions]

\* Preferences.__init__: the preferences table holds a session-key row
PreferencesInit(p) ==
    IF SessionKey \in DOMAIN p THEN p
    ELSE [k \in DOMAIN p \cup {SessionKey} |-> IF k = SessionKey THEN "generated" ELSE p[k]]

\* SELECT id FROM comments WHERE parent IS NULL
Roots(cs) == {c \in DOMAIN cs : cs[c].parent = NULL}

\* SELECT id FROM comments WHERE parent=x
Children(cs, x) == {c \in DOMAIN cs : cs[c].parent = x}

\* ------------------------------------------------------------------- Init
\* a pre-existing store: every parent pre-exists its child (ids are SERIAL)
Forests(n) == {f \in [1..n -> {NULL} \cup 1..n] : \A c \in 1..n : f[c] < c}

RECURSIVE RootOf(_, _)
RootOf(f, c) == IF f[c] = NULL THEN c ELSE RootOf(f, f[c])

TidOf(c) == ((c - 1) % NumThreads) + 1

InitExisting(n) ==
    /\ tables = TRUE
    /\ vtable = TRUE
    /\ \E v \in Versions : versions = InsertVersion(NoRows, v)
    /\ \E f \in Forests(n) : \E st \in {Stale, Bf} :
         comments = [c \in 1..n |-> [parent |-> f[c],
                                    voters |-> IF c = 1 THEN st ELSE Stale,
                                    tid    |-> TidOf(RootOf(f, c))]]
    /\ threads = {comments[c].tid : c \in 1..n}
    /\ seqs = [threads |-> Min({n, NumThreads}) + 1, comments |-> n + 1]
    /\ prefs \in {[k \in {SessionKey, OtherKey} |-> "stored"],
                  [k \in {OtherKey} |-> "stored"]}
    \* from version 2 on the session key lives in the preferences table
    /\ version(vtable, versions) >= 2 => SessionKey \in DOMAIN prefs

InitFresh ==
    /\ tables = FALSE
    /\ vtable = FALSE
    /\ versions = NoRows
    /\ comments = <<>>
    /\ threads = {}
    /\ prefs = <<>>
    /\ seqs = [threads |-> 1, comments |-> 1]

InitStore(n) ==
    /\ InitExisting(n) \/ InitFresh
    /\ trigger = FALSE
    /\ conf \in {NoKey, ConfKey}
    /\ pc = [o \in Openers |-> "idle"]
    /\ loc = [o \in Openers |-> Idle]
    /\ origin = [fresh |-> ~tables, version |-> version(vtable, versions),
                 comments |-> comments, prefs |-> prefs]
    /\ commits = [k \in Steps |-> IF k < version(vtable, versions) THEN 1 ELSE 0]
    /\ pend = {}

Init == InitStore(MaxId)

InitRace == InitStore(RaceIds)


\* ---------------------------------------------------------------- actions
Set(o, f) == loc' = [loc EXCEPT ![o] = f]

Goto(o, p) == pc' = [pc EXCEPT ![o] = p]

\* seeded fault: the return of migrate also leaves __init__
ReturnSkipsTrigger(o) == Goto(o, "done")

\* return from migrate: into __init__ (line 49) or to the caller
Return(o) == Goto(o, IF loc[o].caller = "init" THEN "trig" ELSE "done")

\* an exception leaves __init__ or migrate: why = "interrupted" for a
\* failure from outside (Abort), "error" for one the code itself runs into
Raise(o, why) ==
    /\ Set(o, [Idle EXCEPT !.at = pc[o], !.why = why])
    /\ Goto(o, "failed")

\* the locals that are dead after a step are reset
Clear(o) == Set(o, [loc[o] EXCEPT !.rv = FALSE, !.tx = NoTx, !.walk = NoWalk])

\* __init__ lines 29-37: a process opens the store and looks for the tables
Open(o) ==
    /\ pc[o] \in Rest
    /\ Set(o, [Idle EXCEPT !.rv = tables])
    /\ Goto(o, "schema")
    /\ UNCHANGED <<store, conf, origin, commits, pend, seqs>>

\* seeded fault: every open stamps the store, whether or not the tables existed
InitBranchAlwaysStamp(rv) == "setver_create"

\* `if rv is None` (line 44)
InitBranch(rv) == IF rv THEN "mig86" ELSE "setver_create"

\* __init__ lines 39-47: the sub-schemas create their tables, then the branch
EnsureSchema(o) ==
    /\ pc[o] = "schema"
    /\ tables' = TRUE
    /\ prefs' = PreferencesInit(prefs)
    /\ Goto(o, InitBranch(loc[o].rv))
    /\ Clear(o)
    /\ UNCHANGED <<vtable, versions, comments, threads, trigger, conf,
                   origin, commits, pend, seqs>>

\* set_version line 81: CREATE TABLE IF NOT EXISTS versions
SetVersionCreate(o) ==
    /\ pc[o] = "setver_create"
    /\ vtable' = TRUE
    /\ Goto(o, "setver_insert")
    /\ UNCHANGED <<tables, versions, comments, threads, prefs, trigger, conf,
                   loc, origin, commits, pend, seqs>>

\* set_version line 82: INSERT INTO versions VALUES (MAX_VERSION)
SetVersionInsert(o) ==
    /\ pc[o] = "setver_insert"
    /\ versions' = InsertVersion(versions, loc[o].to)
    /\ Goto(o, "trig")
    /\ UNCHANGED <<tables, vtable, comments, threads, prefs, trigger, conf,
                   loc, origin, commits, pend, seqs>>

\* __init__ lines 49-62: CREATE OR REPLACE FUNCTION, DROP/CREATE TRIGGER
InstallTrigger(o) ==
    /\ pc[o] = "trig"
    /\ trigger' = TRUE
    /\ Goto(o, "done")
    /\ UNCHANGED <<tables, vtable, versions, comments, threads, prefs, conf,
                   loc, origin, commits, pend, seqs>>

\* a later call db.migrate(to) on the constructed object
CallMigrate(o) ==
    /\ pc[o] = "done"
    /\ \E t \in Targets : Set(o, [Idle EXCEPT !.rv = TRUE, !.to = t, !.caller = "user"])
    /\ Goto(o, "mig86")
    /\ UNCHANGED <<store, conf, origin, commits, pend, seqs>>

\* seeded fault: the early return of line 86 taken one version too early
UpToDateOffByOne(v, to) == v >= to - 1

\* `self.version >= to` (line 86)
UpToDate(v, to) == v >= to

\* migrate lines 86-89.  Without a versions table the SELECT raises; over an
\* empty table it yields None, and `None >= to` raises TypeError on Python 3
\* and is False on Python 2.
Migrate86(o) ==
    /\ pc[o] = "mig86"
    /\ LET v == version(vtable, versions) IN
         IF v = Raises THEN Raise(o, "error")
         ELSE IF v = None THEN Raise(o, "error") \/ (Goto(o, "chk0") /\ UNCHANGED loc)
         ELSE IF UpToDate(v, loc[o].to) THEN Return(o) /\ UNCHANGED loc
         ELSE Goto(o, "chk0") /\ UNCHANGED loc
    /\ UNCHANGED <<store, conf, origin, commits, pend, seqs>>

\* seeded fault: a block also runs on a store that is already past it
StepGuardAtLeast(v, k) == v >= k

\* `if self.version == k` (lines 93, 104, 115)
StepGuard(v, k) == v = k

AfterStep(o, k) == IF k + 1 < MAX_VERSION THEN Goto(o, "chk" \o ToString(k + 1)) ELSE Return(o)

CheckVersion(o, k) ==
    /\ pc[o] = "chk" \o ToString(k)
    /\ IF StepGuard(version(vtable, versions), k)
       THEN Goto(o, IF k = 2 THEN "s2_top" ELSE "s" \o ToString(k) \o "_upd")
       ELSE AfterStep(o, k)
    /\ UNCHANGED <<store, conf, loc, origin, commits, pend, seqs>>

\* line 99: UPDATE comments SET voters=bf
Step0Update(o) ==
    /\ pc[o] = "s0_upd"
    /\ Set(o, [loc[o] EXCEPT !.tx.voters = TRUE])
    /\ Goto(o, "s0_ins")
    /\ UNCHANGED <<store, conf, origin, commits, pend, seqs>>

\* seeded fault: the configured key is never found
HasOptionNever(c) == FALSE

\* conf.has_option("general", "session-key") (line 107)
HasOption(c) == c # NoKey

\* lines 107-109: UPDATE preferences SET value=conf WHERE key='session-key'
Step1Update(o) ==
    /\ pc[o] = "s1_upd"
    /\ Set(o, IF HasOption(conf) THEN [loc[o] EXCEPT !.tx.pref = conf] ELSE loc[o])
    /\ Goto(o, "s1_ins")
    /\ UNCHANGED <<store, conf, origin, commits, pend, seqs>>

\* lines 100, 111, 136: INSERT INTO versions VALUES (k+1)
StepInsert(o, k) ==
    /\ pc[o] = "s" \o ToString(k) \o "_ins"
    /\ Set(o, [loc[o] EXCEPT !.tx.ver = k + 1])
    /\ Goto(o, "s" \o ToString(k) \o "_end")
    /\ UNCHANGED <<store, conf, origin, commits, pend, seqs>>

\* lines 101, 112, 137 and the end of the with block: COMMIT
StepCommit(o, k) ==
    /\ pc[o] = "s" \o ToString(k) \o "_end"
    /\ LET d == Commit(Data, loc[o].tx) IN
         /\ comments' = d.comments
         /\ prefs' = d.prefs
         /\ versions' = d.versions
    /\ commits' = [commits EXCEPT ![k] = @ + 1]
    /\ Clear(o)
    /\ AfterStep(o, k)
    /\ UNCHANGED <<tables, vtable, threads, trigger, conf, origin, pend, seqs>>

InTx == {"s0_upd", "s0_ins", "s0_end", "s1_upd", "s1_ins", "s1_end",
         "s2_top", "s2_walk", "s2_upd", "s2_ins", "s2_end"}

\* a statement raises or the process is interrupted: the open is abandoned,
\* an open transaction is rolled back
Abort(o) ==
    /\ pc[o] \notin Rest
    /\ LET d == IF pc[o] \in InTx THEN Rollback(Data, loc[o].tx) ELSE Data IN
         /\ comments' = d.comments
         /\ prefs' = d.prefs
         /\ versions' = d.versions
    /\ Raise(o, "interrupted")
    /\ UNCHANGED <<tables, vtable, threads, trigger, conf, origin, commits, pend, seqs>>

\* seeded fault: the query for the top-level comments has lost its WHERE clause
TopAll(cs) == DOMAIN cs

\* SELECT id FROM comments WHERE parent IS NULL, as issued at line 120
Top(cs) == Roots(cs)

\* the rows a statement of opener o's transaction sees: committed rows
\* (READ COMMITTED) overlaid with the transaction's own writes
View(o) == Commit(Data, loc[o].tx).comments

\* line 120: top = ids of the root comments, in the order the store returns them
Step2Top(o) ==
    /\ pc[o] = "s2_top"
    /\ \E t \in Perms(Top(View(o))) :
         Set(o, [loc[o] EXCEPT !.walk = [NoWalk EXCEPT !.top = t]])
    /\ Goto(o, "s2_walk")
    /\ UNCHANGED <<store, conf, origin, commits, pend, seqs>>

\* seeded fault: the children found are not pushed on the worklist
ExtendNothing(ids, rv) == ids

\* ids.extend(rv) (line 129)
Extend(ids, rv) == ids \o rv

\* seeded fault: the root itself is counted among its descendants
UpdateWithRoot(flattened, id, rv) ==
    [k \in DOMAIN flattened \cup {id} |->
        (IF k \in DOMAIN flattened THEN flattened[k] ELSE {})
        \cup (IF k = id THEN ToSet(rv) \cup {id} ELSE {})]

\* flattened[id].update(set(rv)) (line 130), flattened a defaultdict(set)
Update(flattened, id, rv) ==
    [k \in DOMAIN flattened \cup {id} |->
        (IF k \in DOMAIN flattened THEN flattened[k] ELSE {})
        \cup (IF k = id THEN ToSet(rv) ELSE {})]

\* the (id, n) pairs of the loops of lines 132-133
Pairs(flattened) == {p \in (DOMAIN flattened) \X Ids : p[2] \in flattened[p[1]]}

\* lines 123-125: the next root, or the end of the for loop
Step2NextRoot(o) ==
    /\ pc[o] = "s2_walk"
    /\ loc[o].walk.ids = <<>>
    /\ LET w == loc[o].walk IN
         IF w.top = <<>>
         THEN /\ Set(o, [loc[o] EXCEPT !.walk.upd = Pairs(w.flattened)])
              /\ Goto(o, IF Pairs(w.flattened) = {} THEN "s2_ins" ELSE "s2_upd")
         ELSE /\ Set(o, [loc[o] EXCEPT !.walk.cur = Head(w.top),
                                       !.walk.top = Tail(w.top),
                                       !.walk.ids = <<Head(w.top)>>])
              /\ UNCHANGED pc
    /\ UNCHANGED <<store, conf, origin, commits, pend, seqs>>

\* seeded fault: the worklist is read with ids[-1], the entry is never removed
PopPeek(ids) == ids

\* ids.pop() (line 128): what is left of the worklist
Pop(ids) == Front(ids)

\* one more child query for comment x (line 127)
Ask(asked, x) ==
    IF x \in DOMAIN asked THEN [asked EXCEPT ![x] = @ + 1] ELSE (x :> 1) @@ asked

\* lines 127-130: one iteration of `while ids`
Step2Pop(o) ==
    /\ pc[o] = "s2_walk"
    /\ loc[o].walk.ids # <<>>
    /\ LET w == loc[o].walk IN
         \E rv \in Perms(Children(View(o), Last(w.ids))) :
            Set(o, [loc[o] EXCEPT !.walk.ids = Extend(Pop(w.ids), rv),
                                  !.walk.asked = Ask(@, Last(w.ids)),
                                  !.walk.flattened = Update(w.flattened, w.cur, rv)])
    /\ UNCHANGED <<pc, store, conf, origin, commits, pend, seqs>>

\* seeded fault: the two parameters of the UPDATE are passed in the wrong order
SetParentSwapped(parents, id, n) == (id :> n) @@ parents

\* UPDATE comments SET parent=? WHERE id=?, with parameters (id, n) (line 134)
SetParent(parents, id, n) == (n :> id) @@ parents

\* line 134: UPDATE comments SET parent=id WHERE id=n, for one pending pair
Step2Update(o) ==
    /\ pc[o] = "s2_upd"
    /\ \E p \in loc[o].walk.upd :
         /\ Set(o, [loc[o] EXCEPT !.tx.parents = SetParent(@, p[1], p[2]),
                                  !.walk.upd = @ \ {p}])
         /\ Goto(o, IF loc[o].walk.upd = {p} THEN "s2_ins" ELSE "s2_upd")
    /\ UNCHANGED <<store, conf, origin, commits, pend, seqs>>

Proc(o) ==
        \/ Open(o)
        \/ EnsureSchema(o)
        \/ SetVersionCreate(o)
        \/ SetVersionInsert(o)
        \/ InstallTrigger(o)
        \/ CallMigrate(o)
        \/ Migrate86(o)
        \/ \E k \in Steps : CheckVersion(o, k)
        \/ Step0Update(o)
        \/ Step1Update(o)
        \/ Step2Top(o)
        \/ Step2NextRoot(o)
        \/ Step2Pop(o)
        \/ Step2Update(o)
        \/ \E k \in Steps : StepInsert(o, k)
        \/ \E k \in Steps : StepCommit(o, k)
        \/ Abort(o)

\* seeded fault: the subquery selects the comments' ids instead of their tid
RemoveStaleThreadsById(ths, cs) == {t \in ths : t \in DOMAIN cs}

\* the trigger function remove_stale_threads_func (line 52):
\* DELETE FROM threads WHERE id NOT IN (SELECT tid FROM comments)
RemoveStaleThreads(ths, cs) == {t \in ths : \E c \in DOMAIN cs : cs[c].tid = t}

\* Threads.new line 29: INSERT INTO threads (uri, title); the id is SERIAL
ThreadsNewInsert ==
    /\ seqs.threads <= NumThreads
    /\ threads' = threads \cup {seqs.threads}
    /\ pend' = pend \cup {seqs.threads}
    /\ seqs' = [seqs EXCEPT !.threads = @ + 1]
    /\ UNCHANGED <<tables, vtable, versions, comments, prefs, trigger, conf,
                   pc, loc, origin, commits>>

\* Threads.new line 30: return self[uri]
ThreadsNewLookup(t) ==
    /\ t \in pend
    /\ pend' = pend \ {t}
    /\ UNCHANGED <<store, conf, pc, loc, origin, commits, seqs>>

\* a comment is inserted into an existing thread, as a root or as a reply to
\* one of the thread's comments
AddComment(t, p) ==
    /\ seqs.comments <= MaxId
    /\ t \in threads
    /\ p = NULL \/ (p \in DOMAIN comments /\ comments[p].tid = t /\ comments[p].parent = NULL)
    /\ comments' = (seqs.comments :> [parent |-> p, voters |-> Bf, tid |-> t]) @@ comments
    /\ seqs' = [seqs EXCEPT !.comments = @ + 1]
    /\ UNCHANGED <<tables, vtable, versions, threads, prefs, trigger, conf,
                   pc, loc, origin, commits, pend>>

\* DELETE FROM comments WHERE id=c, and the AFTER DELETE trigger of lines
\* 58-62 in the same transaction
DeleteComment(c) ==
    /\ c \in DOMAIN comments
    /\ comments' = [d \in DOMAIN comments \ {c} |-> comments[d]]
    /\ threads' = IF trigger THEN RemoveStaleThreads(threads, comments') ELSE threads
    /\ UNCHANGED <<tables, vtable, versions, prefs, trigger, conf,
                   pc, loc, origin, commits, pend, seqs>>

\* one process at a time opens the store, any number of times
Next == \E o \in {Min(Openers)} : Proc(o)

\* the open of a store at version 2 whose comments.parent column holds
\* arbitrary values: self-parents, cycles among replies, parents with a
\* larger id.  The schema puts no constraint on the column.
InitAny ==
    /\ tables = TRUE
    /\ vtable = TRUE
    /\ versions = InsertVersion(NoRows, 2)
    /\ \E f \in [Ids -> {NULL} \cup Ids] :
         comments = [c \in Ids |-> [parent |-> f[c], voters |-> Bf, tid |-> TidOf(c)]]
    /\ threads = {comments[c].tid : c \in Ids}
    /\ seqs = [threads |-> Min({MaxId, NumThreads}) + 1, comments |-> MaxId + 1]
    /\ prefs = [k \in {SessionKey, OtherKey} |-> "stored"]
    /\ trigger = FALSE
    /\ conf = NoKey
    /\ pc = [o \in Openers |-> "idle"]
    /\ loc = [o \in Openers |-> Idle]
    /\ origin = [fresh |-> FALSE, version |-> 2, comments |-> comments, prefs |-> prefs]
    /\ commits = [k \in Steps |-> IF k < 2 THEN 1 ELSE 0]
    /\ pend = {}

\* __init__ on such a store: schema, migrate with its 2 -> 3 block, trigger
OpenAny(o) ==
        \/ Open(o)
        \/ EnsureSchema(o)
        \/ Migrate86(o)
        \/ \E k \in Steps : CheckVersion(o, k)
        \/ Step2Top(o)
        \/ Step2NextRoot(o)
        \/ Step2Pop(o)
        \/ Step2Update(o)
        \/ StepInsert(o, 2)
        \/ StepCommit(o, 2)
        \/ InstallTrigger(o)
        \/ Abort(o)

NextAny == \E o \in {Min(Openers)} : OpenAny(o)

SpecAny == InitAny /\ [][NextAny]_vars

Spec == Init /\ [][Next]_vars

\* several processes open the store concurrently
NextRace == \E o \in Openers : Proc(o)

SpecRace == InitRace /\ [][NextRace]_vars

\* a store created and opened by PSQL.__init__, then used through Threads and
\* the comments table
InitReap ==
    /\ tables = TRUE
    /\ vtable = TRUE
    /\ versions = InsertVersion(NoRows, MAX_VERSION)
    /\ comments = <<>>
    /\ threads = {}
    /\ prefs = PreferencesInit(<<>>)
    /\ trigger = TRUE
    /\ conf \in {NoKey, ConfKey}
    /\ pc = [o \in Openers |-> "done"]
    /\ loc = [o \in Openers |-> Idle]
    /\ origin = [fresh |-> TRUE, version |-> Raises, comments |-> <<>>, prefs |-> <<>>]
    /\ commits = [k \in Steps |-> 0]
    /\ pend = {}
    /\ seqs = [threads |-> 1, comments |-> 1]

NextReap ==
    \/ ThreadsNewInsert
    \/ \E t \in Tids : ThreadsNewLookup(t)
    \/ \E t \in Tids, p \in {NULL} \cup Ids : AddComment(t, p)
    \/ \E c \in Ids : DeleteComment(c)

SpecReap == InitReap /\ [][NextReap]_vars

\* ------------------------------------------------------------ properties
Parents(cs) == [c \in DOMAIN cs |-> cs[c].parent]

\* every parent is null or a comment whose own parent is null
Flat(cs) ==
    \A c \in DOMAIN cs :
        cs[c].parent = NULL
        \/ (cs[c].parent \in DOMAIN cs /\ cs[cs[c].parent].parent = NULL)

\* the stored version, when the store holds a version row
Stamped == version(vtable, versions) \in Versions

\* opener o commits step k in this step
Commits(o, k) == pc[o] = "s" \o ToString(k) \o "_end" /\ commits'[k] = commits[k] + 1

DataUnchanged == comments' = comments /\ prefs' = prefs /\ versions' = versions

\* C1: on a store whose tables exist and whose stored version is any v in
\* 0..MAX_VERSION, an open that returns without error leaves the stored
\* version equal to MAX_VERSION.
C1_OpenReachesMax ==
    \A o \in Openers :
        (~origin.fresh /\ pc[o] = "done" /\ loc[o].caller = "init")
            => version(vtable, versions) = MAX_VERSION

\* an open of a version-0 store has returned, having run the three steps
C1_Witness ==
    \E o \in Openers :
        /\ ~origin.fresh /\ origin.version = 0
        /\ pc[o] = "done" /\ loc[o].caller = "init"
        /\ version(vtable, versions) = MAX_VERSION
        /\ \A k \in Steps : commits[k] = 1

\* C2: when the 2->3 step commits on a forest whose parent chains all end at
\* a root, every comment's parent is afterwards null or a root, and every
\* non-root comment's parent is the root ancestor it had before the step.
C2_FlattenCorrect ==
    [][\A o \in Openers :
         Commits(o, 2) =>
            /\ Flat(comments')
            /\ \A c \in DOMAIN comments :
                 comments'[c].parent =
                    IF comments[c].parent = NULL THEN NULL
                    ELSE RootOf(Parents(comments), c)]_vars

\* the chain 1 <- 2 <- 3 <- 4 has been flattened onto its root 1
C2_Witness ==
    /\ ~origin.fresh /\ origin.version <= 2 /\ commits[2] = 1
    /\ origin.comments[2].parent = 1
    /\ origin.comments[3].parent = 2
    /\ origin.comments[4].parent = 3
    /\ \A c \in 2..4 : comments[c].parent = 1
    /\ comments[1].parent = NULL

\* what step k has done to the data once it has committed
StepEffect(k) ==
    CASE k = 0 -> \A c \in DOMAIN comments' : comments'[c].voters = Bf
      [] k = 1 -> conf # NoKey /\ SessionKey \in DOMAIN prefs'
                    => prefs'[SessionKey] = conf
      [] k = 2 -> Flat(comments')

\* C3: every step of a process inside a step's transaction block either
\* leaves the stored version, comments and preferences as they were (also
\* when the block is left by a failure, at any point), or it is the commit,
\* which makes the step's version row and its data changes visible together.
C3_StepAtomic ==
    [][\A o \in Openers :
         (pc[o] \in InTx /\ <<pc[o], loc[o]>> # <<pc'[o], loc'[o]>>) =>
            \/ DataUnchanged
            \/ \E k \in Steps :
                 /\ Commits(o, k)
                 /\ versions' = InsertVersion(versions, k + 1)
                 /\ StepEffect(k)]_vars

\* the Tree Flattener failed after its updates and its version row were
\* written in the block: version and parents are the pre-step ones
C3_Witness ==
    \E o \in Openers :
        /\ pc[o] = "failed" /\ loc[o].at = "s2_end"
        /\ ~origin.fresh /\ origin.version = 2
        /\ version(vtable, versions) = 2
        /\ comments = origin.comments
        /\ ~Flat(comments)

\* C4: every migration step commits at most once, whatever the interleaving
\* of concurrent openers.
C4_StepAtMostOnce == \A k \in Steps : commits[k] <= 1

\* C5: an open on a store that is already at MAX_VERSION changes no comment,
\* thread or preference row and inserts no version row.
C5_ReopenIdempotent ==
    [][\A o \in Openers :
         ( /\ version(vtable, versions) = MAX_VERSION
           /\ loc'[o].caller = "init"
           /\ <<pc[o], loc[o]>> # <<pc'[o], loc'[o]>> )
         => (DataUnchanged /\ threads' = threads)]_vars

\* a later open of an up-to-date store, about to re-declare the trigger an
\* earlier open installed
C5_Witness ==
    \E o \in Openers :
        /\ pc[o] = "trig" /\ loc[o].caller = "init" /\ trigger
        /\ version(vtable, versions) = MAX_VERSION
        /\ comments = origin.comments /\ comments # <<>>

\* C6: with the trigger installed, after every comment deletion no thread
\* row without a referencing comment remains, and every thread that still
\* has a referencing comment is still present.
C6_OrphanReaping ==
    [][(trigger /\ DOMAIN comments' # DOMAIN comments /\ DOMAIN comments' \subseteq DOMAIN comments) =>
          /\ \A t \in threads' : \E c \in DOMAIN comments' : comments'[c].tid = t
          /\ \A t \in threads :
                (\E c \in DOMAIN comments' : comments'[c].tid = t) => t \in threads']_vars

\* thread 1 was reaped with its only comment; thread 2 lost one of its two
\* comments and is still there
C6_Witness ==
    /\ trigger
    /\ seqs.threads > 2 /\ 1 \notin threads /\ 2 \in threads
    /\ \E c, d, e \in 1..(seqs.comments - 1) :
         /\ c \notin DOMAIN comments
         /\ d \notin DOMAIN comments /\ d # c
         /\ e \in DOMAIN comments /\ comments[e].tid = 2
         /\ Cardinality(DOMAIN comments) = 1

\* C7: the 1->2 step without a configured session-key commits with every
\* preference row unchanged; with one, the session-key row holds the
\* configured value afterwards and no other row is changed; either way the
\* stored version is 2 afterwards.
C7_ConfigCopy ==
    [][\A o \in Openers :
         Commits(o, 1) =>
            /\ version(vtable, versions') = 2
            /\ DOMAIN prefs' = DOMAIN prefs
            /\ \A k \in DOMAIN prefs :
                 prefs'[k] = IF conf # NoKey /\ k = SessionKey THEN conf ELSE prefs[k]]_vars

\* the step has copied the configured key over the stored one
C7_Witness ==
    /\ ~origin.fresh /\ origin.version <= 1 /\ commits[1] = 1
    /\ conf # NoKey
    /\ SessionKey \in DOMAIN origin.prefs /\ origin.prefs[SessionKey] # conf
    /\ prefs[SessionKey] = conf
    /\ prefs[OtherKey] = origin.prefs[OtherKey]

\* C8: on a store in which no version was ever written, reading the current
\* version yields 0.
C8_UnsetReadsZero ==
    \A o \in Openers :
        (pc[o] = "mig86" /\ ~Stamped) => version(vtable, versions) = 0

\* C9: migrate(to) never returns normally while the stored version is below
\* the target.
C9_NoPathFails ==
    \A o \in Openers :
        (pc[o] = "done" /\ Stamped) => version(vtable, versions) >= loc[o].to

Sum(f) == f[0] + f[1] + f[2]

\* C10 as stated: the stored version equals the number of committed steps.
C10_VersionCountsSteps == Stamped => version(vtable, versions) = Sum(commits)

\* C10, amended: the stored version equals the number of committed steps,
\* except on a store created by open, which is stamped MAX_VERSION without
\* any step having run.
C10_VersionCountsStepsOrFresh ==
    Stamped =>
        IF origin.fresh
        THEN version(vtable, versions) = MAX_VERSION /\ Sum(commits) = 0
        ELSE version(vtable, versions) = Sum(commits)

\* a store created by open: stamped MAX_VERSION, no step ever committed
C10_Witness ==
    /\ origin.fresh /\ Stamped /\ trigger
    /\ version(vtable, versions) = MAX_VERSION /\ Sum(commits) = 0

\* C11: after interrupted opens, an open that is not itself interrupted
\* does not fail and ends with the stored version equal to MAX_VERSION.
C11_ResumesCleanly ==
    \A o \in Openers :
        /\ pc[o] = "failed" => loc[o].why = "interrupted"
        /\ (pc[o] = "done" /\ loc[o].caller = "init")
              => version(vtable, versions) = MAX_VERSION

\* C12: the 2 -> 3 step on a forest that is already flat writes every
\* non-root comment the parent it already has and commits an unchanged
\* parent assignment; since the step's output is flat, running it on its
\* own output changes nothing.
C12_FlatIsFixpoint ==
    [][\A o \in Openers :
          (Commits(o, 2) /\ Flat(comments)) =>
             /\ \A n \in DOMAIN loc[o].tx.parents :
                   n \in DOMAIN comments
                   /\ loc[o].tx.parents[n] = comments[n].parent
             /\ Parents(comments') = Parents(comments)
             /\ Flat(comments')]_vars

\* a store at version 3 whose step 2 -> 3 ran on a flat forest with replies
C12_Witness ==
    /\ ~origin.fresh
    /\ origin.version = 2
    /\ commits[2] = 1
    /\ Flat(origin.comments)
    /\ Roots(origin.comments) # DOMAIN origin.comments
    /\ Parents(comments) = Parents(origin.comments)

\* the first statement of step k's block
Begin(k) == IF k = 2 THEN "s2_top" ELSE "s" \o ToString(k) \o "_upd"

\* C13: with one opener at a time, a migrate call enters step k only when
\* the version it has just read is k, every step below k has committed and
\* no step from k upwards has; steps commit in increasing order, and when
\* the call returns every step from the store's original version up to
\* 2 -> 3 has committed exactly once (none below it was run again).
C13_StepsInOrder ==
    [][\A o \in Openers : \A k \in Steps :
          /\ (pc[o] = "chk" \o ToString(k) /\ pc'[o] = Begin(k)) =>
                /\ version(vtable, versions) = k
                /\ \A j \in Steps : commits[j] = IF j < k THEN 1 ELSE 0
          /\ Commits(o, k) =>
                \A j \in Steps : commits'[j] = IF j <= k THEN 1 ELSE 0
          /\ (pc[o] \in {"chk2", "s2_end"} /\ pc'[o] \in {"trig", "done"}
              /\ ~origin.fresh) =>
                \A j \in Steps : commits'[j] = 1]_vars

\* a migrate call that started on a store at version 1 is inside step 2 -> 3
C13_Witness ==
    /\ ~origin.fresh
    /\ origin.version = 1
    /\ \E o \in Openers : pc[o] = "s2_walk" /\ loc[o].at = "none"
    /\ commits[1] = 1
    /\ commits[2] = 0

\* C14: under any interleaving of any number of openers, no step of the
\* program removes a row of versions or lowers the stored version: once a
\* version is stored, the next stored version is at least as large, and a
\* rolled-back step leaves rows and version as they were.
C14_VersionMonotone ==
    [][/\ \A v \in Versions : versions'[v] >= versions[v]
       /\ vtable => vtable'
       /\ Stamped =>
             version(vtable', versions') \in Versions
             /\ version(vtable', versions') >= version(vtable, versions)
       /\ \A o \in Openers :
             (pc[o] \in InTx /\ pc'[o] = "failed") =>
                versions' = versions /\ vtable' = vtable]_vars

\* a lagging opener has appended the row of a step a second time, below
\* the version another opener had already stored
C14_Witness ==
    /\ versions[1] = 2
    /\ versions[3] >= 1
    /\ \E o \in Openers : pc[o] = "failed" /\ loc[o].at \in InTx

\* C15: the commit of step 0 -> 1 leaves every comment with the same
\* sentinel-only voters value, whatever it held before, and changes no
\* comment's id, thread or parent, no thread row and no preference row.
C15_VotersReset ==
    [][\A o \in Openers :
          Commits(o, 0) =>
             /\ DOMAIN comments' = DOMAIN comments
             /\ \A c \in DOMAIN comments :
                   /\ comments'[c].voters = Bf
                   /\ comments'[c].parent = comments[c].parent
                   /\ comments'[c].tid = comments[c].tid
             /\ threads' = threads
             /\ prefs' = prefs]_vars

\* step 0 -> 1 has committed on a store whose comments held different
\* voters values, one of them already the sentinel-only value
C15_Witness ==
    /\ ~origin.fresh
    /\ origin.version = 0
    /\ commits[0] = 1
    /\ version(vtable, versions) = 1
    /\ \E c, d \in DOMAIN origin.comments :
          /\ origin.comments[c].voters = Bf
          /\ origin.comments[d].voters = Stale
          /\ origin.comments[d].parent # NULL
    /\ \A c \in DOMAIN comments : comments[c].voters = Bf

\* C16: the 2 -> 3 step writes only the parent of non-root comments: the
\* UPDATEs it has issued when it commits address no root, and the commit
\* leaves the set of comment ids, every comment's thread and voters, the
\* NULL parent of every root, the thread rows and the preference rows as
\* they were; on a forest of roots without replies it issues no UPDATE.
C16_FlattenFrame ==
    [][\A o \in Openers :
          Commits(o, 2) =>
             /\ DOMAIN loc[o].tx.parents \subseteq DOMAIN comments \ Roots(comments)
             /\ Roots(comments) = DOMAIN comments => loc[o].tx.parents = <<>>
             /\ DOMAIN comments' = DOMAIN comments
             /\ \A c \in DOMAIN comments :
                   /\ comments'[c].tid = comments[c].tid
                   /\ comments'[c].voters = comments[c].voters
                   /\ comments[c].parent = NULL => comments'[c].parent = NULL
             /\ threads' = threads
             /\ prefs' = prefs]_vars

\* step 2 -> 3 has committed on a forest with a reply to a reply and with a
\* root that has no replies
C16_Witness ==
    /\ ~origin.fresh
    /\ origin.version = 2
    /\ commits[2] = 1
    /\ \E r \in Roots(origin.comments) : Children(origin.comments, r) = {}
    /\ ~Flat(origin.comments)
    /\ Flat(comments)
    /\ Roots(comments) = Roots(origin.comments)

\* the comments that lie on a cycle of parent links, self-parents included
RECURSIVE Reaches(_, _, _, _)
Reaches(cs, x, y, n) ==
    /\ n > 0
    /\ x \in DOMAIN cs
    /\ cs[x].parent \in DOMAIN cs
    /\ (cs[x].parent = y \/ Reaches(cs, cs[x].parent, y, n - 1))

OnCycle(cs) == {c \in DOMAIN cs : Reaches(cs, c, c, Cardinality(DOMAIN cs))}

\* C17: for every assignment of parents, cycles and self-parents included,
\* the walk of the 2 -> 3 step asks for the children of each comment id at
\* most once in the whole step and its worklist holds no id twice, so the
\* `while ids` loops end after at most one iteration per comment.
C17_WalkAsksOnce ==
    \A o \in Openers :
        LET w == loc[o].walk IN
        /\ \A x \in DOMAIN w.asked : w.asked[x] = 1
        /\ \A i, j \in DOMAIN w.ids : w.ids[i] = w.ids[j] => i = j
        /\ \A i \in DOMAIN w.ids : w.ids[i] \notin DOMAIN w.asked

\* the walk has ended on a store that holds a cycle of two replies next to
\* a root with a reply
C17_Witness ==
    \E o \in Openers :
        /\ pc[o] = "s2_end"
        /\ \E c, d \in OnCycle(comments) : c # d /\ comments[c].parent = d
        /\ loc[o].walk.asked # <<>>
        /\ loc[o].tx.parents # <<>>

\* C18: an open ends successfully only by the step that declares the
\* trigger function and the trigger, taken after set_version or migrate has
\* returned, whatever the store was at the start (no tables, any version 0
\* to 3); an open that fails installs nothing, and every successfully
\* opened store has the trigger.
C18_TriggerLast ==
    [][/\ trigger' # trigger => \E o \in Openers : pc[o] = "trig" /\ pc'[o] = "done"
       /\ \A o \in Openers :
          /\ (pc[o] # "done" /\ pc'[o] = "done" /\ loc[o].caller = "init") =>
                pc[o] = "trig" /\ trigger'
          /\ (pc[o] # "trig" /\ pc'[o] = "trig") =>
                /\ pc[o] \in {"setver_insert", "mig86", "chk2", "s2_end"}
                /\ loc[o].caller = "init"
                /\ (pc[o] = "setver_insert" \/ version(vtable', versions') = MAX_VERSION
                    \/ ~Stamped)
          /\ (pc[o] # "failed" /\ pc'[o] = "failed") => trigger' = trigger]_vars

\* an open of a store at version 1 has migrated it and then declared the
\* trigger
C18_Witness ==
    /\ ~origin.fresh
    /\ origin.version = 1
    /\ trigger
    /\ version(vtable, versions) = MAX_VERSION
    /\ \E o \in Openers : pc[o] = "done" /\ loc[o].caller = "init"

\* the parent every reply must end with: the root of its tree in forest cs
Expected(cs) ==
    [n \in DOMAIN cs \ Roots(cs) |-> RootOf(Parents(cs), n)]

\* C19: the writes of the 2 -> 3 step are a function of the forest the step
\* started on, whatever the order of roots, of the worklist and of the
\* UPDATEs: no UPDATE is issued before the last child query, the descendant
\* sets of distinct roots are disjoint, every UPDATE issued assigns the
\* reply its root in the stored forest, and when the block ends the issued
\* UPDATEs are exactly that assignment.
C19_OrderIndependent ==
    \A o \in Openers :
        LET w == loc[o].walk
            tx == loc[o].tx
        IN  (~origin.fresh /\ pc[o] \in InTx) =>
              /\ pc[o] \in {"s2_top", "s2_walk"} => tx.parents = <<>>
              /\ \A a, b \in DOMAIN w.flattened :
                    a # b => w.flattened[a] \cap w.flattened[b] = {}
              /\ \A n \in DOMAIN tx.parents :
                    n \in DOMAIN Expected(comments)
                    /\ tx.parents[n] = Expected(comments)[n]
              /\ pc[o] \in {"s2_ins", "s2_end"} => tx.parents = Expected(comments)

\* the block has issued its last UPDATE on a forest of two trees, one of
\* them with a reply to a reply
C19_Witness ==
    \E o \in Openers :
        /\ pc[o] = "s2_end"
        /\ Cardinality(Roots(comments)) = 2
        /\ ~Flat(comments)
        /\ Cardinality(DOMAIN loc[o].tx.parents) >= 2

\* C20: a thread row is removed only by a step that deletes a comment of
\* that thread: a row inserted by Threads.new and still without comments
\* survives the deletion of a comment of another thread, before as well as
\* after the lookup of Threads.new.
C20_ThreadKept ==
    [][\A t \in threads :
          t \notin threads' =>
             \E c \in DOMAIN comments \ DOMAIN comments' : comments[c].tid = t]_vars

====
